---- MODULE Spec2Model ----
(***************************************************************************)
(* Model of the incremental photo pipeline of process_photos.py: the scan  *)
(* and classification loop of main, the process pool running              *)
(* process_image, the merge of the results with the user overrides and     *)
(* save_json, over the state of the disk (source directory, derivative     *)
(* directory, manifest document, override document) across repeated runs;  *)
(* and of migrate_to_avif.py, which re-encodes the HEIC/HIF originals and   *)
(* renames their keys in the override document.                           *)
(***************************************************************************)
EXTENDS Integers, Sequences, FiniteSets, TLC

(***************************************************************************)
(* Bounds of the model.                                                    *)
(***************************************************************************)
\* runs of main that are explored one after the other
MaxRuns == 2
\* edits the operator makes to the disk between the runs explored
MaxEdits == 1
\* worker processes of the pool (ProcessPoolExecutor() takes the host's CPU count)
PoolSize == 2

(***************************************************************************)
(* Python dicts keep insertion order and json.dump writes them in that     *)
(* order: a dict is a sequence of <<key, value>> pairs with distinct keys. *)
(***************************************************************************)
EmptyDict == << >>

DictKeys(d) == {d[i][1] : i \in 1..Len(d)}

DictHas(d, k) == \E i \in 1..Len(d) : d[i][1] = k

DictIndex(d, k) == CHOOSE i \in 1..Len(d) : d[i][1] = k

DictGet(d, k) == d[DictIndex(d, k)][2]

\* d[k] = v: an existing key keeps its position, a new key goes last
DictSet(d, k, v) ==
    IF DictHas(d, k) THEN [d EXCEPT ![DictIndex(d, k)] = <<k, v>>]
    ELSE Append(d, <<k, v>>)

\* d.update(e): the pairs of e are assigned in e's order
RECURSIVE DictUpdate(_, _)
DictUpdate(d, e) ==
    IF e = << >> THEN d
    ELSE DictUpdate(DictSet(d, Head(e)[1], Head(e)[2]), Tail(e))

(***************************************************************************)
(* Values of the manifest: a structured record (dict of string fields) or  *)
(* a legacy bare string.                                                   *)
(***************************************************************************)
StrEntry(s) == [kind |-> "str", s |-> s, d |-> EmptyDict]

DictEntry(d) == [kind |-> "dict", s |-> "", d |-> d]

\* Python truthiness of a manifest value: "" and {} are falsy
Truthy(e) == IF e.kind = "str" THEN e.s # "" ELSE e.d # EmptyDict

(***************************************************************************)
(* File names.  Path(f).suffix and Path(f).stem are given per name.        *)
(***************************************************************************)
DirNames == {"a.jpg", "a.png", "b.PNG", "n.txt", "x.heic", "x.hif", "x.AVIF"}

Suffix(f) ==
    CASE f = "a.jpg" -> ".jpg"
      [] f = "a.png" -> ".png"
      [] f = "b.PNG" -> ".PNG"
      [] f = "n.txt" -> ".txt"
      [] f = "gone.jpeg" -> ".jpeg"
      [] f = "x.heic" -> ".heic"
      [] f = "x.hif" -> ".hif"
      [] f = "x.AVIF" -> ".AVIF"
      [] OTHER -> ""

Stem(f) ==
    CASE f = "a.jpg" -> "a"
      [] f = "a.png" -> "a"
      [] f = "b.PNG" -> "b"
      [] f = "n.txt" -> "n"
      [] f = "gone.jpeg" -> "gone"
      [] f \in {"x.heic", "x.hif", "x.AVIF"} -> "x"
      [] OTHER -> f

\* str.lower() on the suffixes that occur
Lower(s) ==
    CASE s = ".PNG" -> ".png"
      [] s = ".AVIF" -> ".avif"
      [] OTHER -> s

SUPPORTED_EXTENSIONS == {".jpg", ".jpeg", ".png", ".heic", ".heif"}

Eligible(f) == Lower(Suffix(f)) \in SUPPORTED_EXTENSIONS

\* DEST_DIR / f"{stem}.webp", as the relative path written into the record
OptimizedPath(f) ==
    CASE Stem(f) = "a" -> "optimized/a.webp"
      [] Stem(f) = "b" -> "optimized/b.webp"
      [] Stem(f) = "n" -> "optimized/n.webp"
      [] Stem(f) = "x" -> "optimized/x.webp"
      [] OTHER -> "optimized/gone.webp"

(***************************************************************************)
(* File contents.  A source file is its bytes (one of four byte strings)   *)
(* and its modification time; bytes 0 stands for "no such file".           *)
(*   1: a decodable image, EXIF DateTimeOriginal and DateTime both set     *)
(*   2: a decodable image, EXIF DateTime only, in a format strptime rejects*)
(*   3: bytes no decoder opens                                             *)
(*   4: a decodable image without EXIF dates whose img.save raises after   *)
(*      the destination was opened for writing (the encoder rejects the    *)
(*      resized image, or the write itself fails)                          *)
(*   5: an empty file (st_size 0)                                          *)
(* Contents are the byte strings an edit between two runs writes.          *)
(***************************************************************************)
Contents == {1, 2, 3}

NoFile == [bytes |-> 0, mtime |-> 0]

MD5(bytes) ==
    CASE bytes = 1 -> "h1"
      [] bytes = 2 -> "h2"
      [] bytes = 3 -> "h3"
      [] bytes = 4 -> "h4"
      [] OTHER -> "h5"

\* a digest of the bytes and the modification time (not what the code does)
calculate_file_hash_stat(file) ==
    IF file.mtime = 0 THEN MD5(file.bytes) ELSE "hm"

\* calculate_file_hash: the digest of the bytes read in 4096-byte chunks
calculate_file_hash(file) == MD5(file.bytes)

Decodable(bytes) == bytes \in {1, 2, 4}

Encodable(bytes) == bytes \in {1, 2}

ExifOriginal(bytes) == IF bytes = 1 THEN "2020:01:02 03:04:05" ELSE ""

ExifDateTime(bytes) ==
    CASE bytes = 1 -> "2021:05:06 07:08:09"
      [] bytes = 2 -> "0000:00:00 00:00:00"
      [] OTHER -> ""

\* datetime.strptime(v, '%Y:%m:%d %H:%M:%S').isoformat(); a ValueError keeps v
IsoFormat(v) ==
    CASE v = "2020:01:02 03:04:05" -> "2020-01-02T03:04:05"
      [] v = "2021:05:06 07:08:09" -> "2021-05-06T07:08:09"
      [] OTHER -> v

\* get_exif_data: DateTimeOriginal wins over DateTime, then the date is normalised
get_exif_data(bytes) ==
    LET raw == IF ExifOriginal(bytes) # "" THEN ExifOriginal(bytes)
               ELSE ExifDateTime(bytes)
    IN IF raw = "" THEN EmptyDict ELSE <<(<<"date_taken", IsoFormat(raw)>>)>>

(***************************************************************************)
(* Documents on disk and what load_json makes of them.                     *)
(*   st: "missing" (no file), "empty" (zero bytes), "invalid" (text that   *)
(*   is not JSON, such as a truncated document), "array" (well-formed JSON *)
(*   whose top level is a list), "object" (a JSON object, obj).            *)
(***************************************************************************)
Doc(st, obj) == [st |-> st, obj |-> obj]

ObjectDoc(obj) == Doc("object", obj)

\* json.dump(data, f, indent=2) of a dict: the object, keys in dict order
json_dump(data) == ObjectDoc(data)

\* load_json: {} for a missing file or a JSONDecodeError, else json.load's value
load_json(doc) ==
    CASE doc.st = "object" -> [kind |-> "map", obj |-> doc.obj]
      [] doc.st = "array" -> [kind |-> "list", obj |-> EmptyDict]
      [] OTHER -> [kind |-> "map", obj |-> EmptyDict]

(***************************************************************************)
(* main, lines 128-161: the classification of one scanned file and the     *)
(* copy-forward of a fresh entry.                                          *)
(***************************************************************************)
\* current_manifest.get(filename): None when the key is absent
NoneEntry == [kind |-> "none", s |-> "", d |-> EmptyDict]

ManifestGet(cm, filename) ==
    IF DictHas(cm, filename) THEN DictGet(cm, filename) ELSE NoneEntry

\* entry.get('hash'): None (here "") when the record has no such field
StoredHash(entry) == IF DictHas(entry.d, "hash") THEN DictGet(entry.d, "hash") ELSE ""

\* the chain without its isinstance(entry, str) arm (not what the code does)
needs_processing_nolegacy(entry, file_hash, dest_exists) ==
    IF entry.kind = "none" \/ ~Truthy(entry) THEN TRUE
    ELSE IF StoredHash(entry) # file_hash /\ entry.s # file_hash THEN TRUE
    ELSE ~dest_exists

\* the chain without its last arm, the derivative check (not what the code does)
needs_processing_nodest(entry, file_hash, dest_exists) ==
    IF entry.kind = "none" \/ ~Truthy(entry) THEN TRUE
    ELSE IF entry.kind = "str" THEN TRUE
    ELSE entry.kind = "dict" /\ StoredHash(entry) # file_hash

\* lines 144-151: the if/elif chain that sets needs_processing
needs_processing(entry, file_hash, dest_exists) ==
    IF entry.kind = "none" \/ ~Truthy(entry) THEN TRUE
    ELSE IF entry.kind = "str" THEN TRUE
    ELSE IF entry.kind = "dict" /\ StoredHash(entry) # file_hash THEN TRUE
    ELSE IF ~dest_exists THEN TRUE
    ELSE FALSE

\* an overlay in which the fields already in the record win (not what the code does)
MergeOverridesKeep(d, um, filename) ==
    IF DictHas(um, filename)
    THEN DictUpdate(DictUpdate(d, DictGet(um, filename)), d)
    ELSE d

\* an overlay that replaces the whole record by the override (not what the code does)
MergeOverridesReplace(d, um, filename) ==
    IF DictHas(um, filename) THEN DictGet(um, filename) ELSE d

\* lines 160-161 and 180-181: entry.update(user_metadata[filename]) when present
MergeOverrides(d, um, filename) ==
    IF DictHas(um, filename) THEN DictUpdate(d, DictGet(um, filename)) ELSE d

\* a copy-forward that drops the entry (not what the code does)
CopyForwardDrop(nm, filename, entry, um) == nm

\* a copy-forward that rebuilds the record from the pipeline's fields and the
\* override (not what the code does)
CopyForwardRebuild(nm, filename, entry, um) ==
    DictSet(nm, filename,
            DictEntry(MergeOverrides(
                SelectSeq(entry.d,
                          LAMBDA p : p[1] \in {"hash", "filename", "optimized_path",
                                               "date_taken"}),
                um, filename)))

\* lines 157-161: new_manifest[filename] = entry, then the overlay
CopyForward(nm, filename, entry, um) ==
    DictSet(nm, filename,
            IF entry.kind = "dict"
            THEN DictEntry(MergeOverrides(entry.d, um, filename))
            ELSE entry)

\* a start from the entries of the previous manifest (not what the code does)
InitialManifestCarry(cm) == cm

\* line 117: new_manifest = {}
InitialManifest(cm) == EmptyDict

(***************************************************************************)
(* main, lines 169-183: what one result of the pool adds to new_manifest.  *)
(***************************************************************************)
\* lines 172-177: the baseline entry; **extracted_meta comes after the three fields
BaselineEntry(filename, file_hash, extracted_meta) ==
    DictUpdate(<< <<"hash", file_hash>>, <<"filename", filename>>,
                  <<"optimized_path", OptimizedPath(filename)>> >>,
               extracted_meta)

\* a merge that takes every result, failed or not (not what the code does)
AddResultAlways(nm, filename, file_hash, success, extracted_meta, um) ==
    DictSet(nm, filename,
            DictEntry(MergeOverrides(BaselineEntry(filename, file_hash, extracted_meta),
                                     um, filename)))

\* a merge that remembers a failed file by its hash (not what the code does)
AddResultFailedStub(nm, filename, file_hash, success, extracted_meta, um) ==
    DictSet(nm, filename,
            DictEntry(IF success
                      THEN MergeOverrides(BaselineEntry(filename, file_hash, extracted_meta),
                                          um, filename)
                      ELSE << <<"hash", file_hash>>, <<"filename", filename>> >>))

\* lines 170-183: a successful result becomes the file's entry, a failed one nothing
AddResult(nm, filename, file_hash, success, extracted_meta, um) ==
    IF success
    THEN DictSet(nm, filename,
                 DictEntry(MergeOverrides(BaselineEntry(filename, file_hash, extracted_meta),
                                          um, filename)))
    ELSE nm

\* lines 169-183: the loop over the results, in the order of the tasks
RECURSIVE CollectResults(_, _, _, _, _)
CollectResults(nm, ts, rs, um, i) ==
    IF i > Len(ts) THEN nm
    ELSE CollectResults(AddResult(nm, ts[i][1], ts[i][2], rs[i].success, rs[i].meta, um),
                        ts, rs, um, i + 1)

\* the results taken in the order in which the workers returned, as
\* concurrent.futures.as_completed would give them (not what the code does)
MergeOrderCompleted(ts, done) == done

\* line 167: list(executor.map(process_image, tasks)) has the results in the order
\* of the tasks, whatever the order done in which the workers returned
MergeOrder(ts, done) == [i \in 1..Len(ts) |-> i]

\* the elements of seq in the given order of indices
Reorder(seq, order) == [k \in 1..Len(order) |-> seq[order[k]]]

(***************************************************************************)
(* State.                                                                  *)
(*   The disk: src (the files of originals/), unreadable (the files that   *)
(*   open() refuses), dirOrder (the order in which                         *)
(*   os.listdir yields the names, fixed for a directory), derivs (the      *)
(*   stems that have a .webp in optimized/), partial (the stems whose      *)
(*   .webp is a truncated or half-written file), manifestFile,             *)
(*   overrideFile.                                                         *)
(*   The process running main: pc, error and the locals of main;           *)
(*   results[i] is the state of the pool's task i, calls[i] the number of  *)
(*   times process_image was called on it, completed the tasks in          *)
(*   the order in which their workers returned, reported[f] counts the     *)
(*   "Error processing" lines printed for f.                               *)
(*   History: runNo (runs started), failedPrev (the files whose transcode  *)
(*   failed in the last completed run), edits (the edits the operator has  *)
(*   made to the disk so far), touched, modified (the files the operator   *)
(*   touched and rewrote since the last run ended), startFile (the         *)
(*   manifest document when no run was last under way), classified (the    *)
(*   value of needs_processing per scanned file), readerView (what a       *)
(*   concurrent reader of the manifest file last read during the run).     *)
(*   The process running migrate_to_avif.py: migPc, the locals metadata    *)
(*   and heic_files of its main, migIdx (the position of its loop), and as *)
(*   history migrated (the files whose metadata block, lines 76-90, ran)   *)
(*   and metaBefore (the metadata as loaded).                              *)
(***************************************************************************)
VARIABLES src, unreadable, dirOrder, derivs, partial, manifestFile, overrideFile,
          pc, error, current_manifest, user_metadata, files, idx, tasks,
          new_manifest, results, calls, completed, reported,
          runNo, failedPrev, edits, touched, modified, startFile, classified, readerView,
          migPc, metadata, heic_files, migIdx, migrated, metaBefore

diskVars == <<src, unreadable, dirOrder, derivs, partial, manifestFile, overrideFile>>
localVars == <<current_manifest, user_metadata, files, idx, tasks, new_manifest,
               results, calls, completed, reported>>
histVars == <<runNo, failedPrev, edits, touched, modified, startFile, classified>>
migVars == <<migPc, metadata, heic_files, migIdx, migrated, metaBefore>>
vars == <<diskVars, pc, error, localVars, histVars, readerView, migVars>>

ScanNames == {f \in DirNames : Eligible(f)}

NoRead == Doc("unread", EmptyDict)

EmptyMap == [kind |-> "map", obj |-> EmptyDict]

Record(filename, hash) ==
    << <<"hash", hash>>, <<"filename", filename>>,
       <<"optimized_path", OptimizedPath(filename)>> >>

(***************************************************************************)
(* The initial disk states explored.                                       *)
(***************************************************************************)
\* what the manifest may hold for a.jpg: nothing, a legacy string (empty, equal to
\* the hash of bytes 1, other), a record (empty, hash of bytes 1, hash of bytes 2,
\* no hash field, hash of bytes 1 with a field a user added earlier)
InitEntriesA ==
    {NoneEntry, StrEntry(""), StrEntry("h1"), StrEntry("zz"),
     DictEntry(EmptyDict), DictEntry(Record("a.jpg", "h1")),
     DictEntry(Record("a.jpg", "h2")),
     DictEntry(<< <<"filename", "a.jpg">> >>),
     DictEntry(Append(Record("a.jpg", "h1"), <<"tags", "old">>))}

InitEntriesB == {NoneEntry, StrEntry("h1"), DictEntry(Record("b.PNG", "h1"))}

Pair(k, e) == IF e.kind = "none" THEN << >> ELSE << <<k, e>> >>

\* an object document: a record of a file that is gone, then b.PNG's and a.jpg's values
InitObjects ==
    {ObjectDoc(<< <<"gone.jpeg", DictEntry(Record("gone.jpeg", "h1"))>> >>
               \o Pair("b.PNG", eb) \o Pair("a.jpg", ea)) :
        ea \in InitEntriesA, eb \in InitEntriesB}

InitManifests ==
    {Doc("missing", EmptyDict), Doc("empty", EmptyDict), Doc("invalid", EmptyDict),
     Doc("array", EmptyDict)} \cup InitObjects

InitOverrides ==
    {Doc("missing", EmptyDict),
     ObjectDoc(<< <<"a.jpg", << <<"tags", "x">> >> >> >>),
     ObjectDoc(<< <<"a.jpg", << <<"hash", "zz">>, <<"date_taken", "manual">> >> >>,
                  <<"b.PNG", << <<"tags", "x">>,
                               <<"optimized_path", "custom/b.webp">> >> >> >>)}

InitOrders ==
    {<<"a.jpg", "n.txt", "b.PNG", "a.png">>, <<"a.png", "b.PNG", "n.txt", "a.jpg">>}

InitSources ==
    {[f \in DirNames |->
        CASE f = "a.jpg" -> [bytes |-> a, mtime |-> 0]
          [] f = "b.PNG" -> [bytes |-> b, mtime |-> 0]
          [] f = "a.png" -> NoFile
          [] f = "n.txt" -> [bytes |-> 1, mtime |-> 0]
          [] OTHER -> NoFile] : a \in {1, 3}, b \in {0, 1}}

\* the directories in which a.jpg and a.png, two names with one stem, are both present
InitSourcesStem ==
    {[f \in DirNames |->
        CASE f = "a.jpg" -> [bytes |-> a, mtime |-> 0]
          [] f = "b.PNG" -> NoFile
          [] f = "a.png" -> [bytes |-> c, mtime |-> 0]
          [] f = "n.txt" -> [bytes |-> 1, mtime |-> 0]
          [] OTHER -> NoFile] : a \in {1, 3}, c \in {1, 2}}

\* the directories in which a file decodes but its img.save raises
InitSourcesEncode ==
    {[f \in DirNames |->
        CASE f = "a.jpg" -> [bytes |-> a, mtime |-> 0]
          [] f = "b.PNG" -> [bytes |-> b, mtime |-> 0]
          [] f = "a.png" -> NoFile
          [] f = "n.txt" -> [bytes |-> 1, mtime |-> 0]
          [] OTHER -> NoFile] : a \in {1, 4}, b \in {0, 1, 4}}

InitDerivs == {{}, {"b"}, {"a", "b"}}

\* migrate_to_avif.py has not been started
MigIdle ==
    /\ migPc = "idle"
    /\ metadata = EmptyMap
    /\ heic_files = << >>
    /\ migIdx = 1
    /\ migrated = {}
    /\ metaBefore = EmptyMap

Init ==
    /\ src \in InitSources
    /\ unreadable = {}
    /\ dirOrder \in InitOrders
    /\ derivs \in InitDerivs
    /\ partial = {}
    /\ manifestFile \in InitManifests
    /\ overrideFile \in InitOverrides
    /\ pc = "idle"
    /\ error = ""
    /\ current_manifest = EmptyMap
    /\ user_metadata = EmptyMap
    /\ files = << >>
    /\ idx = 1
    /\ tasks = << >>
    /\ new_manifest = EmptyDict
    /\ results = << >>
    /\ calls = << >>
    /\ completed = << >>
    /\ reported = [f \in ScanNames |-> 0]
    /\ runNo = 0
    /\ failedPrev = {}
    /\ edits = 0
    /\ touched = {}
    /\ modified = {}
    /\ startFile = manifestFile
    /\ classified = [f \in ScanNames |-> "none"]
    /\ readerView = NoRead
    /\ MigIdle

(***************************************************************************)
(* main, lines 110-126: load the two documents and list the directory.     *)
(***************************************************************************)
\* lines 123-126: the names os.listdir yields whose lowered suffix is supported
Listing(order, dir) ==
    SelectSeq(order, LAMBDA f : dir[f].bytes # 0 /\ Eligible(f))

Start ==
    /\ pc = "idle"
    /\ runNo < MaxRuns
    /\ pc' = "scan"
    /\ error' = ""
    /\ current_manifest' = load_json(manifestFile)
    /\ user_metadata' = load_json(overrideFile)
    /\ new_manifest' = InitialManifest(load_json(manifestFile).obj)
    /\ tasks' = << >>
    /\ files' = Listing(dirOrder, src)
    /\ idx' = 1
    /\ results' = << >>
    /\ calls' = << >>
    /\ completed' = << >>
    /\ reported' = [f \in ScanNames |-> 0]
    /\ runNo' = runNo + 1
    /\ startFile' = manifestFile
    /\ classified' = [f \in ScanNames |-> "none"]
    /\ UNCHANGED <<diskVars, failedPrev, edits, touched, modified, readerView, migVars>>

(***************************************************************************)
(* main, lines 129-161: one iteration of the scan loop.  The open() in     *)
(* calculate_file_hash raises OSError for a file that cannot be read and   *)
(* nothing in main catches it.  A current_manifest                         *)
(* that is no dict has no .get (AttributeError); a fresh entry that is no  *)
(* dict has no .update when the file has an override.                      *)
(***************************************************************************)
ScanFile ==
    /\ pc = "scan"
    /\ idx <= Len(files)
    /\ LET filename == files[idx]
           file_hash == calculate_file_hash(src[filename])
           dest_exists == Stem(filename) \in derivs
           entry == ManifestGet(current_manifest.obj, filename)
           reprocess == needs_processing(entry, file_hash, dest_exists)
       IN IF filename \in unreadable
          THEN /\ pc' = "crashed"
               /\ error' = "OSError in calculate_file_hash"
               /\ UNCHANGED <<tasks, new_manifest, classified, idx>>
          ELSE IF current_manifest.kind # "map"
          THEN /\ pc' = "crashed"
               /\ error' = "AttributeError in scan"
               /\ UNCHANGED <<tasks, new_manifest, classified, idx>>
          ELSE IF reprocess
          THEN /\ tasks' = Append(tasks, <<filename, file_hash>>)
               /\ classified' = [classified EXCEPT ![filename] = "REPROCESS"]
               /\ idx' = idx + 1
               /\ UNCHANGED <<pc, error, new_manifest>>
          ELSE IF entry.kind # "dict" /\ DictHas(user_metadata.obj, filename)
          THEN /\ pc' = "crashed"
               /\ error' = "AttributeError in scan"
               /\ new_manifest' = DictSet(new_manifest, filename, entry)
               /\ classified' = [classified EXCEPT ![filename] = "FRESH"]
               /\ UNCHANGED <<tasks, idx>>
          ELSE /\ new_manifest' = CopyForward(new_manifest, filename, entry,
                                              user_metadata.obj)
               /\ classified' = [classified EXCEPT ![filename] = "FRESH"]
               /\ idx' = idx + 1
               /\ UNCHANGED <<pc, error, tasks>>
    /\ UNCHANGED <<diskVars, current_manifest, user_metadata, files, results, calls,
                   completed, reported, runNo, failedPrev, edits, touched, modified,
                   startFile, readerView, migVars>>

\* an end of the scan that saves the copied-forward entries before the pool starts
\* (not what the code does)
ScanDoneCheckpoint ==
    /\ pc = "scan"
    /\ idx > Len(files)
    /\ pc' = IF tasks # << >> THEN "pool" ELSE "save"
    /\ results' = [i \in 1..Len(tasks) |->
                     [st |-> "pending", success |-> FALSE, meta |-> EmptyDict]]
    /\ calls' = [i \in 1..Len(tasks) |-> 0]
    /\ manifestFile' = json_dump(new_manifest)
    /\ UNCHANGED <<src, unreadable, dirOrder, derivs, partial, overrideFile, error,
                   current_manifest, user_metadata, files, idx, tasks, new_manifest,
                   completed, reported, histVars, readerView, migVars>>

\* lines 163-167: with tasks the pool starts, without the manifest is saved at once
ScanDone ==
    /\ pc = "scan"
    /\ idx > Len(files)
    /\ pc' = IF tasks # << >> THEN "pool" ELSE "save"
    /\ results' = [i \in 1..Len(tasks) |->
                     [st |-> "pending", success |-> FALSE, meta |-> EmptyDict]]
    /\ calls' = [i \in 1..Len(tasks) |-> 0]
    /\ UNCHANGED <<diskVars, error, current_manifest, user_metadata, files, idx, tasks,
                   new_manifest, completed, reported, histVars, readerView, migVars>>

(***************************************************************************)
(* process_image, lines 61-95, run by the workers of the pool.  A worker   *)
(* first opens and decodes the source (lines 73-87), then writes the       *)
(* derivative (line 90); an exception prints one line and returns a failed *)
(* result (lines 93-95).                                                   *)
(***************************************************************************)
Running == {i \in 1..Len(results) : results[i].st = "opened"}

WorkerOpen(i) ==
    /\ pc = "pool"
    /\ results[i].st = "pending"
    /\ Cardinality(Running) < PoolSize
    /\ calls' = [calls EXCEPT ![i] = @ + 1]
    /\ LET filename == tasks[i][1]
           bytes == src[filename].bytes
       IN IF Decodable(bytes)
          THEN /\ results' = [results EXCEPT ![i] =
                                [st |-> "opened", success |-> FALSE,
                                 meta |-> get_exif_data(bytes)]]
               /\ UNCHANGED <<completed, reported>>
          ELSE /\ results' = [results EXCEPT ![i] =
                                [st |-> "done", success |-> FALSE, meta |-> EmptyDict]]
               /\ completed' = Append(completed, i)
               /\ reported' = [reported EXCEPT ![filename] = @ + 1]
    /\ UNCHANGED <<diskVars, pc, error, current_manifest, user_metadata, files, idx,
                   tasks, new_manifest, histVars, readerView, migVars>>

\* line 90, img.save(dest_path, "WEBP"): Pillow opens the destination "w+b", which
\* truncates a file already there, and then encodes into it.  When the save raises,
\* Pillow removes a destination that the call created (every version that has
\* Image.Resampling does) and leaves one that existed before as it then is.
WorkerSave(i) ==
    /\ pc = "pool"
    /\ results[i].st = "opened"
    /\ completed' = Append(completed, i)
    /\ LET filename == tasks[i][1]
           stem == Stem(filename)
       IN IF Encodable(src[filename].bytes)
          THEN /\ derivs' = derivs \cup {stem}
               /\ partial' = partial \ {stem}
               /\ results' = [results EXCEPT ![i].st = "done", ![i].success = TRUE]
               /\ UNCHANGED reported
          ELSE /\ results' = [results EXCEPT ![i] =
                                [st |-> "done", success |-> FALSE, meta |-> EmptyDict]]
               /\ reported' = [reported EXCEPT ![filename] = @ + 1]
               /\ derivs' = derivs
               /\ partial' = IF stem \in derivs THEN partial \cup {stem} ELSE partial
    /\ UNCHANGED <<src, unreadable, dirOrder, manifestFile, overrideFile, pc, error,
                   current_manifest, user_metadata, files, idx, tasks, new_manifest,
                   calls, histVars, readerView, migVars>>

\* lines 167-183: list(executor.map(...)) has every result, then the merge loop runs
Collect ==
    /\ pc = "pool"
    /\ \A i \in 1..Len(results) : results[i].st = "done"
    /\ LET order == MergeOrder(tasks, completed)
       IN new_manifest' = CollectResults(new_manifest, Reorder(tasks, order),
                                         Reorder(results, order), user_metadata.obj, 1)
    /\ pc' = "save"
    /\ UNCHANGED <<diskVars, error, current_manifest, user_metadata, files, idx, tasks,
                   results, calls, completed, reported, histVars, readerView, migVars>>

(***************************************************************************)
(* save_json, lines 106-108: open(path, 'w') truncates the manifest file,  *)
(* json.dump writes the text into the file object, whose buffer may be     *)
(* flushed part-way, and leaving the with block writes the rest.           *)
(***************************************************************************)
SaveOpen ==
    /\ pc = "save"
    /\ manifestFile' = Doc("empty", EmptyDict)
    /\ pc' = "saving"
    /\ UNCHANGED <<src, unreadable, dirOrder, derivs, partial, overrideFile, error,
                   localVars, histVars,
                   readerView, migVars>>

SaveFlush ==
    /\ pc = "saving"
    /\ manifestFile.st = "empty"
    /\ manifestFile' = Doc("invalid", EmptyDict)
    /\ UNCHANGED <<src, unreadable, dirOrder, derivs, partial, overrideFile, pc, error,
                   localVars, histVars,
                   readerView, migVars>>

SaveClose ==
    /\ pc = "saving"
    /\ manifestFile' = json_dump(new_manifest)
    /\ pc' = "done"
    /\ UNCHANGED <<src, unreadable, dirOrder, derivs, partial, overrideFile, error,
                   localVars, runNo, failedPrev, edits,
                   touched, modified, startFile, classified, readerView, migVars>>

\* the process ends (main returns, or the exception leaves main): its locals are gone
Exit ==
    /\ pc \in {"done", "crashed"}
    /\ pc' = "idle"
    /\ error' = ""
    /\ current_manifest' = EmptyMap
    /\ user_metadata' = EmptyMap
    /\ files' = << >>
    /\ idx' = 1
    /\ tasks' = << >>
    /\ new_manifest' = EmptyDict
    /\ results' = << >>
    /\ calls' = << >>
    /\ completed' = << >>
    /\ reported' = [f \in ScanNames |-> 0]
    /\ touched' = {}
    /\ modified' = {}
    /\ classified' = [f \in ScanNames |-> "none"]
    /\ startFile' = manifestFile
    /\ readerView' = NoRead
    /\ failedPrev' = IF pc = "done"
                      THEN {tasks[i][1] : i \in {j \in 1..Len(tasks) : ~results[j].success}}
                      ELSE failedPrev
    /\ UNCHANGED <<diskVars, runNo, edits, migVars>>

(***************************************************************************)
(* What the operator does to the disk between two runs.                    *)
(***************************************************************************)
CanEdit == pc = "idle" /\ runNo >= 1 /\ runNo < MaxRuns /\ edits < MaxEdits

\* touch: a new modification time, the same bytes (once per file between two runs)
Touch(f) ==
    /\ pc = "idle" /\ runNo >= 1 /\ runNo < MaxRuns
    /\ src[f].bytes # 0
    /\ f \notin touched \cup modified
    /\ src' = [src EXCEPT ![f].mtime = @ + 1]
    /\ touched' = touched \cup {f}
    /\ UNCHANGED <<unreadable, dirOrder, derivs, partial, manifestFile, overrideFile, pc,
                   error,
                   localVars,
                   runNo, failedPrev, edits, modified, startFile, classified, readerView,
                   migVars>>

\* the file is rewritten with other bytes
Modify(f, c) ==
    /\ CanEdit
    /\ src[f].bytes # 0
    /\ src[f].bytes # c
    /\ src' = [src EXCEPT ![f] = [bytes |-> c, mtime |-> @.mtime + 1]]
    /\ modified' = modified \cup {f}
    /\ edits' = edits + 1
    /\ UNCHANGED <<unreadable, dirOrder, derivs, partial, manifestFile, overrideFile, pc,
                   error,
                   localVars,
                   runNo, failedPrev, touched, startFile, classified, readerView, migVars>>

RemoveSource(f) ==
    /\ CanEdit
    /\ src[f].bytes # 0
    /\ src' = [src EXCEPT ![f] = NoFile]
    /\ unreadable' = unreadable \ {f}
    /\ edits' = edits + 1
    /\ UNCHANGED <<dirOrder, derivs, partial, manifestFile, overrideFile, pc, error,
                   localVars,
                   runNo, failedPrev, touched, modified, startFile, classified,
                   readerView, migVars>>

\* the file can no longer be opened (chmod 000, a dangling link of that name)
MakeUnreadable(f) ==
    /\ CanEdit
    /\ src[f].bytes # 0
    /\ f \notin unreadable
    /\ unreadable' = unreadable \cup {f}
    /\ edits' = edits + 1
    /\ UNCHANGED <<src, dirOrder, derivs, partial, manifestFile, overrideFile, pc, error,
                   localVars, runNo, failedPrev, touched, modified, startFile, classified,
                   readerView, migVars>>

RemoveDerivative(s) ==
    /\ CanEdit
    /\ s \in derivs
    /\ derivs' = derivs \ {s}
    /\ partial' = partial \ {s}
    /\ edits' = edits + 1
    /\ UNCHANGED <<src, unreadable, dirOrder, manifestFile, overrideFile, pc, error,
                   localVars, runNo, failedPrev, touched, modified, startFile, classified,
                   readerView, migVars>>

EditOverrides(doc) ==
    /\ CanEdit
    /\ doc # overrideFile
    /\ overrideFile' = doc
    /\ edits' = edits + 1
    /\ UNCHANGED <<src, unreadable, dirOrder, derivs, partial, manifestFile, pc, error,
                   localVars,
                   runNo, failedPrev, touched, modified, startFile, classified,
                   readerView, migVars>>

(***************************************************************************)
(* Another process reading the manifest file at any moment (a second run's *)
(* load_json, sort_manifests.py): readerView is the document it read.      *)
(***************************************************************************)
ReaderLoad ==
    /\ readerView # manifestFile
    /\ readerView' = manifestFile
    /\ UNCHANGED <<diskVars, pc, error, localVars, histVars, migVars>>

Next ==
    \/ Start
    \/ ScanFile
    \/ ScanDone
    \/ \E i \in 1..Len(results) : WorkerOpen(i)
    \/ \E i \in 1..Len(results) : WorkerSave(i)
    \/ Collect
    \/ SaveOpen
    \/ SaveFlush
    \/ SaveClose
    \/ Exit
    \/ \E f \in ScanNames : Touch(f)
    \/ \E f \in ScanNames, c \in Contents : Modify(f, c)
    \/ \E f \in ScanNames : RemoveSource(f)
    \/ \E f \in ScanNames : MakeUnreadable(f)
    \/ \E s \in {"a", "b"} : RemoveDerivative(s)
    \/ \E doc \in InitOverrides : EditOverrides(doc)

Spec == Init /\ [][Next]_vars

\* the runs of main from the disks on which every source file decodes and no
\* override document exists
InitPlain ==
    /\ Init
    /\ overrideFile.st = "missing"
    /\ \A f \in DirNames : src[f].bytes # 3

SpecPlain == InitPlain /\ [][Next]_vars

\* the runs of main over a directory that holds two names with one stem
InitStem ==
    /\ src \in InitSourcesStem
    /\ unreadable = {}
    /\ dirOrder \in InitOrders
    /\ derivs \in InitDerivs
    /\ partial = {}
    /\ manifestFile \in InitManifests
    /\ overrideFile \in InitOverrides
    /\ pc = "idle"
    /\ error = ""
    /\ current_manifest = EmptyMap
    /\ user_metadata = EmptyMap
    /\ files = << >>
    /\ idx = 1
    /\ tasks = << >>
    /\ new_manifest = EmptyDict
    /\ results = << >>
    /\ calls = << >>
    /\ completed = << >>
    /\ reported = [f \in ScanNames |-> 0]
    /\ runNo = 0
    /\ failedPrev = {}
    /\ edits = 0
    /\ touched = {}
    /\ modified = {}
    /\ startFile = manifestFile
    /\ classified = [f \in ScanNames |-> "none"]
    /\ readerView = NoRead
    /\ MigIdle

SpecStem == InitStem /\ [][Next]_vars

\* the runs of main over a directory with images whose img.save raises
InitEncode ==
    /\ src \in InitSourcesEncode
    /\ unreadable = {}
    /\ dirOrder \in InitOrders
    /\ derivs \in InitDerivs
    /\ partial = {}
    /\ manifestFile \in InitManifests
    /\ overrideFile \in InitOverrides
    /\ pc = "idle"
    /\ error = ""
    /\ current_manifest = EmptyMap
    /\ user_metadata = EmptyMap
    /\ files = << >>
    /\ idx = 1
    /\ tasks = << >>
    /\ new_manifest = EmptyDict
    /\ results = << >>
    /\ calls = << >>
    /\ completed = << >>
    /\ reported = [f \in ScanNames |-> 0]
    /\ runNo = 0
    /\ failedPrev = {}
    /\ edits = 0
    /\ touched = {}
    /\ modified = {}
    /\ startFile = manifestFile
    /\ classified = [f \in ScanNames |-> "none"]
    /\ readerView = NoRead
    /\ MigIdle

SpecEncode == InitEncode /\ [][Next]_vars

\* the runs of main with a concurrent reader of the manifest file
NextReader == Next \/ ReaderLoad

SpecReader == Init /\ [][NextReader]_vars

(***************************************************************************)
(* migrate_to_avif.py.  Its main loads user_metadata.json, globs the       *)
(* .heic and then the .hif files of originals/, and for each of them       *)
(* converts it to <stem>.AVIF unless a non-empty file of that name exists, *)
(* moves the file's metadata entry to the new name, deletes the old file,  *)
(* and at the end saves the metadata with its keys sorted.                 *)
(***************************************************************************)
\* heic_path.with_suffix(".AVIF").name
AvifName(f) ==
    CASE Stem(f) = "x" -> "x.AVIF"
      [] OTHER -> f

\* the order in which ORIGINALS_DIR.glob("*") yields the names
GlobOrder == <<"x.AVIF", "n.txt", "x.hif", "a.jpg", "b.PNG", "a.png", "x.heic">>

\* lines 34-43: the names with the lowered suffix suf
GlobSuffix(dir, suf) ==
    SelectSeq(GlobOrder, LAMBDA f : dir[f].bytes # 0 /\ Lower(Suffix(f)) = suf)

\* lines 57 and 76: avif_path.exists() and avif_path.stat().st_size > 0
AvifReady(dir, f) == dir[AvifName(f)].bytes \notin {0, 5}

\* the position of a key in Python's order of str (code points)
KeyRank(k) ==
    CASE k = "a.jpg" -> 1
      [] k = "a.png" -> 2
      [] k = "b.PNG" -> 3
      [] k = "n.txt" -> 4
      [] k = "x.AVIF" -> 5
      [] k = "x.heic" -> 6
      [] OTHER -> 7

\* del d[k]
DictRemove(d, k) == SelectSeq(d, LAMBDA p : p[1] # k)

\* lines 81-83: if old in metadata: metadata[new] = metadata.pop(old)
RenameKey(md, old, new) ==
    IF DictHas(md, old) THEN DictSet(DictRemove(md, old), new, DictGet(md, old))
    ELSE md

\* save_json of migrate_to_avif.py, lines 24-28: dict(sorted(data.items())), dumped
save_json_sorted(data) ==
    json_dump(SortSeq(data, LAMBDA p, q : KeyRank(p[1]) < KeyRank(q[1])))

\* lines 30-51: load the metadata and glob; without files main returns at once
MigStart ==
    /\ migPc = "idle"
    /\ metadata' = load_json(overrideFile)
    /\ metaBefore' = load_json(overrideFile)
    /\ heic_files' = GlobSuffix(src, ".heic") \o GlobSuffix(src, ".hif")
    /\ migIdx' = 1
    /\ migrated' = {}
    /\ migPc' = IF GlobSuffix(src, ".heic") \o GlobSuffix(src, ".hif") = << >>
                THEN "done" ELSE "loop"
    /\ UNCHANGED <<diskVars, pc, error, localVars, histVars, readerView>>

\* lines 54-90: one iteration of the loop; unlink_ok is whether heic_path.unlink()
\* succeeds (an OSError is caught and printed)
MigFile(unlink_ok) ==
    /\ migPc = "loop"
    /\ migIdx <= Len(heic_files)
    /\ migIdx' = migIdx + 1
    /\ LET heic == heic_files[migIdx]
           avif == AvifName(heic)
           bytes == src[heic].bytes
           converted == IF AvifReady(src, heic) THEN src
                        ELSE IF Decodable(bytes) /\ Encodable(bytes)
                        THEN [src EXCEPT ![avif] = [bytes |-> bytes, mtime |-> 0]]
                        ELSE src
       IN IF AvifReady(converted, heic)
          THEN /\ metadata' = IF metadata.kind = "map"
                              THEN [metadata EXCEPT !.obj = RenameKey(@, heic, avif)]
                              ELSE metadata
               /\ migrated' = migrated \cup {heic}
               /\ src' = IF unlink_ok THEN [converted EXCEPT ![heic] = NoFile]
                         ELSE converted
          ELSE /\ src' = src
               /\ UNCHANGED <<metadata, migrated>>
    /\ UNCHANGED <<unreadable, dirOrder, derivs, partial, manifestFile, overrideFile, pc,
                   error, localVars, histVars, readerView, migPc, heic_files,
                   metaBefore>>

\* line 93: save_json(metadata, METADATA_FILE); a list has no .items()
MigSave ==
    /\ migPc = "loop"
    /\ migIdx > Len(heic_files)
    /\ IF metadata.kind = "map"
       THEN /\ overrideFile' = save_json_sorted(metadata.obj)
            /\ migPc' = "done"
       ELSE /\ migPc' = "crashed"
            /\ UNCHANGED overrideFile
    /\ UNCHANGED <<src, unreadable, dirOrder, derivs, partial, manifestFile, pc, error,
                   localVars, histVars, readerView, metadata, heic_files, migIdx,
                   migrated, metaBefore>>

NextMigrate ==
    \/ MigStart
    \/ \E unlink_ok \in BOOLEAN : MigFile(unlink_ok)
    \/ MigSave

\* the override documents the migration is run on: each of four files with or
\* without an entry
MetaPair(k, v, has) == IF has THEN << <<k, << <<"tags", v>> >> >> >> ELSE << >>

InitMetadataDocs ==
    {Doc("missing", EmptyDict), Doc("invalid", EmptyDict), Doc("array", EmptyDict)}
    \cup {ObjectDoc(MetaPair("x.heic", "of heic", h) \o MetaPair("a.jpg", "of jpg", j)
                    \o MetaPair("x.AVIF", "of avif", v) \o MetaPair("x.hif", "of hif", f)) :
            h \in BOOLEAN, j \in BOOLEAN, v \in BOOLEAN, f \in BOOLEAN}

\* the directories the migration is run on: a.jpg, x.heic (absent, an image, bytes no
\* decoder opens), x.hif (absent, an image), x.AVIF (absent, an image, an empty file)
InitSourcesMigrate ==
    {[f \in DirNames |->
        CASE f = "a.jpg" -> [bytes |-> 1, mtime |-> 0]
          [] f = "x.heic" -> [bytes |-> h, mtime |-> 0]
          [] f = "x.hif" -> [bytes |-> g, mtime |-> 0]
          [] f = "x.AVIF" -> [bytes |-> v, mtime |-> 0]
          [] OTHER -> NoFile] : h \in {0, 1, 3}, g \in {0, 2}, v \in {0, 1, 5}}

InitMigrate ==
    /\ src \in InitSourcesMigrate
    /\ unreadable = {}
    /\ dirOrder = <<"a.jpg", "x.heic">>
    /\ derivs = {}
    /\ partial = {}
    /\ manifestFile = Doc("missing", EmptyDict)
    /\ overrideFile \in InitMetadataDocs
    /\ pc = "idle"
    /\ error = ""
    /\ current_manifest = EmptyMap
    /\ user_metadata = EmptyMap
    /\ files = << >>
    /\ idx = 1
    /\ tasks = << >>
    /\ new_manifest = EmptyDict
    /\ results = << >>
    /\ calls = << >>
    /\ completed = << >>
    /\ reported = [f \in ScanNames |-> 0]
    /\ runNo = 0
    /\ failedPrev = {}
    /\ edits = 0
    /\ touched = {}
    /\ modified = {}
    /\ startFile = manifestFile
    /\ classified = [f \in ScanNames |-> "none"]
    /\ readerView = NoRead
    /\ MigIdle

SpecMigrate == InitMigrate /\ [][NextMigrate]_vars

(***************************************************************************)
(* Properties.                                                             *)
(***************************************************************************)
FileSet == {files[i] : i \in 1..Len(files)}

TaskNames == {tasks[i][1] : i \in 1..Len(tasks)}

Succeeded == {tasks[i][1] : i \in {j \in 1..Len(tasks) : j <= Len(results) /\ results[j].success}}

Written == manifestFile.obj

PriorEntry(f) == ManifestGet(current_manifest.obj, f)

\* C1: a second run with nothing changed since the first enqueues no task and
\* writes the manifest the first run wrote, key order and field order included.
C1_Idempotence ==
    (pc = "done" /\ runNo >= 2 /\ edits = 0 /\ touched = {})
        => (tasks = << >> /\ manifestFile = startFile)

\* C1, the case: a second run of an unchanged directory has written its manifest
C1_SecondRunDone == pc = "done" /\ runNo >= 2 /\ edits = 0 /\ touched = {}

\* the hash first stored in a structured record ("" when it has none)
RecordHash(f) == StoredHash(PriorEntry(f))

Scanned(f) == classified[f] # "none"

C3_LegacyUpgrade ==
    /\ \A f \in ScanNames :
          (Scanned(f) /\ PriorEntry(f).kind = "str")
              => (classified[f] = "REPROCESS" /\ f \in TaskNames)
    /\ \A i \in 1..Len(new_manifest) : new_manifest[i][2].kind = "dict"
    /\ (pc = "crashed" /\ error = "AttributeError in scan")
           => current_manifest.kind # "map"

\* C3, the case: a legacy string equal to the file's hash, the derivative present
C3_LegacyEqualHash ==
    /\ pc = "scan"
    /\ \E f \in ScanNames :
          /\ Scanned(f)
          /\ PriorEntry(f) = StrEntry(MD5(src[f].bytes))
          /\ Stem(f) \in derivs

\* C4: a key of the manifest read at the start that is not in the listing of the run
\* is no key of the manifest the run writes.
C4_DeletionPruning ==
    pc = "done" =>
        \A k \in DictKeys(current_manifest.obj) :
            k \notin FileSet => ~DictHas(Written, k)

\* C4, the case: a file tracked by the first run was removed before the second
C4_RemovedTracked ==
    /\ pc = "done"
    /\ runNo >= 2
    /\ \E k \in ScanNames : src[k].bytes = 0 /\ DictHas(current_manifest.obj, k)

\* C5: in the written manifest every field of a file's override has the override's
\* value in the file's record.
C5_OverridePrecedence ==
    pc = "done" =>
        \A f \in DictKeys(Written) :
            DictHas(user_metadata.obj, f) =>
                \A k \in DictKeys(DictGet(user_metadata.obj, f)) :
                    /\ DictHas(DictGet(Written, f).d, k)
                    /\ DictGet(DictGet(Written, f).d, k)
                           = DictGet(DictGet(user_metadata.obj, f), k)

\* C5, the case: a copied-forward record and a freshly built one, each with an
\* override of a pipeline-derived field whose derived value differs
C5_BothPaths ==
    /\ pc = "done"
    /\ \E f \in ScanNames :
          /\ classified[f] = "FRESH"
          /\ DictHas(user_metadata.obj, f)
          /\ \E k \in DictKeys(DictGet(user_metadata.obj, f)) :
                /\ DictHas(PriorEntry(f).d, k)
                /\ DictGet(PriorEntry(f).d, k) # DictGet(DictGet(user_metadata.obj, f), k)
    /\ \E g \in Succeeded :
          /\ DictHas(user_metadata.obj, g)
          /\ \E k \in DictKeys(DictGet(user_metadata.obj, g)) :
                k \in {"hash", "filename", "optimized_path", "date_taken"}

\* C6: a failed transcode does not stop the run: once the pool has started the run
\* never fails and can always take a step until the manifest is written; the written
\* manifest has, of the batch, exactly the files whose transcode succeeded (the ones
\* that decode and encode); a failed file is reported once, a successful one never.
C6_PartialFailure ==
    /\ pc = "crashed" => results = << >>
    /\ pc \in {"pool", "save", "saving"} => ENABLED Next
    /\ pc = "done" =>
          \A i \in 1..Len(tasks) :
              /\ results[i].success = (Decodable(src[tasks[i][1]].bytes)
                                           /\ Encodable(src[tasks[i][1]].bytes))
              /\ DictHas(Written, tasks[i][1]) = results[i].success
              /\ reported[tasks[i][1]] = IF results[i].success THEN 0 ELSE 1

\* C6, the case: a batch of one failing and one successful transcode is written
C6_OneFailsOneSucceeds ==
    /\ pc = "done"
    /\ Len(tasks) = 2
    /\ \E i, j \in 1..2 : ~results[i].success /\ results[j].success

\* C7: the keys of the written manifest are exactly the eligible files of the
\* directory that were classified FRESH or transcoded successfully in the run.
C7_ManifestKeys ==
    pc = "done" =>
        /\ FileSet = {f \in DirNames : src[f].bytes # 0 /\ Eligible(f)}
        /\ DictKeys(Written)
               = {f \in FileSet : classified[f] = "FRESH" \/ f \in Succeeded}

\* C7, the case: a file with an entry in the previous manifest fails and is dropped
\* while another file is copied forward
C7_FailedTrackedDropped ==
    /\ pc = "done"
    /\ \E f \in TaskNames : f \notin Succeeded /\ DictHas(current_manifest.obj, f)
    /\ \E g \in ScanNames : classified[g] = "FRESH"

\* C8: whatever a concurrent reader reads from the manifest file is the complete
\* previous document or the complete new one.
C8_AtomicSave ==
    readerView # NoRead =>
        \/ readerView = startFile
        \/ readerView = json_dump(new_manifest)

\* C9: load_json gives main a mapping for every manifest document, the run never
\* aborts, and a missing or malformed document has every scanned file reprocessed.
C9_LoadNeverFails ==
    /\ current_manifest.kind = "map"
    /\ pc # "crashed"
    /\ (pc \in {"pool", "save", "saving", "done"} /\ startFile.st # "object")
           => \A f \in FileSet : classified[f] = "REPROCESS"

\* the rule of the claim: absent, bare string, hash differs, derivative missing
ClassificationRule(f) ==
    IF ~DictHas(current_manifest.obj, f) THEN "REPROCESS"
    ELSE IF PriorEntry(f).kind = "str" THEN "REPROCESS"
    ELSE IF ~DictHas(PriorEntry(f).d, "hash")
            \/ DictGet(PriorEntry(f).d, "hash") # MD5(src[f].bytes) THEN "REPROCESS"
    ELSE IF Stem(f) \notin derivs THEN "REPROCESS"
    ELSE "FRESH"

\* C10: the classification main computes for a scanned file is the one the ordered
\* rule gives for its entry, its fresh hash and the existence of its derivative.
C10_ClassificationRule ==
    pc = "scan" => \A f \in ScanNames : Scanned(f) => classified[f] = ClassificationRule(f)

\* C10, the case: in one scan a record with the file's hash but no derivative is
\* reprocessed and a record with the file's hash and its derivative is fresh
C10_HashEqualBothWays ==
    /\ pc = "scan"
    /\ \E f, g \in ScanNames :
          /\ Scanned(f) /\ Scanned(g)
          /\ RecordHash(f) = MD5(src[f].bytes) /\ Stem(f) \notin derivs
          /\ classified[f] = "REPROCESS"
          /\ RecordHash(g) = MD5(src[g].bytes) /\ Stem(g) \in derivs
          /\ classified[g] = "FRESH"

\* the override of a file, {} when it has none
OverrideOf(f) ==
    IF DictHas(user_metadata.obj, f) THEN DictGet(user_metadata.obj, f) ELSE EmptyDict

\* C11: a FRESH file is no task and its written record has the fields of the prior
\* record and of its override, each override field with the override's value and
\* every other field with the prior value.
C11_FreshMerge ==
    pc = "done" =>
        \A f \in ScanNames :
            classified[f] = "FRESH" =>
                /\ f \notin TaskNames
                /\ DictHas(Written, f)
                /\ LET rec == DictGet(Written, f).d
                       prior == PriorEntry(f).d
                       ov == OverrideOf(f)
                   IN /\ DictKeys(rec) = DictKeys(prior) \cup DictKeys(ov)
                      /\ \A k \in DictKeys(ov) : DictGet(rec, k) = DictGet(ov, k)
                      /\ \A k \in DictKeys(prior) \ DictKeys(ov) :
                            DictGet(rec, k) = DictGet(prior, k)

\* C11, the case: a file tracked by the first run gets an override before the second
\* run, which finds it FRESH: the override's field is new to the record
C11_OverrideAddedLater ==
    /\ pc = "done"
    /\ runNo >= 2
    /\ \E f \in ScanNames :
          /\ classified[f] = "FRESH"
          /\ \E k \in DictKeys(OverrideOf(f)) : ~DictHas(PriorEntry(f).d, k)
          /\ DictKeys(PriorEntry(f).d) \ DictKeys(OverrideOf(f)) # {}

\* C12: any two distinct tasks of a run have distinct derivative paths, so no two
\* workers write the same destination file.
C12_NoWriteCollision ==
    \A i, j \in 1..Len(tasks) :
        i # j => OptimizedPath(tasks[i][1]) # OptimizedPath(tasks[j][1])

\* C12, the case: two workers of one pool are between opening their sources (two
\* names with one stem) and writing the one destination
C12_TwoWritersOneStem ==
    /\ pc = "pool"
    /\ \E i, j \in Running : i # j /\ Stem(tasks[i][1]) = Stem(tasks[j][1])

\* the keys of a dict in their order
KeySeq(d) == [i \in 1..Len(d) |-> d[i][1]]

TaskSeq == [i \in 1..Len(tasks) |-> tasks[i][1]]

\* C13: the written manifest is fixed by the tasks and their outcomes alone: its keys
\* are the FRESH files in listing order, then the successful tasks in task order,
\* and each successful task's record is its baseline entry under its override, in
\* whatever order the workers returned.
C13_CompletionOrderIndependence ==
    pc = "done" =>
        /\ KeySeq(Written)
               = SelectSeq(files, LAMBDA f : classified[f] = "FRESH")
                   \o SelectSeq(TaskSeq, LAMBDA f : f \in Succeeded)
        /\ \A i \in 1..Len(tasks) :
              results[i].success =>
                  DictGet(Written, tasks[i][1])
                      = DictEntry(MergeOverrides(
                            BaselineEntry(tasks[i][1], tasks[i][2], results[i].meta),
                            user_metadata.obj, tasks[i][1]))

\* C13, the case: two successful tasks whose workers returned in the reverse of the
\* order of submission
C13_ReverseCompletion ==
    /\ pc = "done"
    /\ completed = <<2, 1>>
    /\ \A i \in 1..Len(results) : results[i].success

\* C14: a scanned file that cannot be read does not end the run: no run fails in
\* calculate_file_hash.
C14_UnreadableNotFatal ==
    ~(pc = "crashed" /\ error = "OSError in calculate_file_hash")

\* C14, the case: the scan has reached a file that cannot be read while another file
\* of the listing is still to be classified
C14_ScanAtUnreadable ==
    /\ pc = "scan"
    /\ idx < Len(files)
    /\ files[idx] \in unreadable

\* C15: the step in which a worker returns from process_image puts a complete
\* derivative at the task's destination when the call succeeded and leaves the
\* derivative directory as it was when the call failed.
C15_TranscodeWriteEffect ==
    [][(pc = "pool" /\ pc' = "pool") =>
          \A i \in 1..Len(results) :
              (results[i].st # "done" /\ results'[i].st = "done") =>
                  IF results'[i].success
                  THEN /\ Stem(tasks[i][1]) \in derivs'
                       /\ Stem(tasks[i][1]) \notin partial'
                  ELSE derivs' = derivs /\ partial' = partial]_vars

\* C15, the case: a call has failed on a file whose derivative existed before it
C15_FailedOverExisting ==
    /\ pc = "pool"
    /\ \E i \in 1..Len(results) :
          /\ results[i].st = "done"
          /\ ~results[i].success
          /\ Decodable(src[tasks[i][1]].bytes)
          /\ Stem(tasks[i][1]) \in derivs

\* the converted files that had an entry in the metadata as loaded
MigratedKeys == {h \in migrated : DictHas(metaBefore.obj, h)}

\* C16: after the migration the saved document has, for every converted file that
\* had an entry, that record under the .AVIF name and nothing under the old name,
\* and every other entry of the loaded document with its value.
C16_KeyRename ==
    migPc = "done" =>
        LET doc == load_json(overrideFile).obj
        IN /\ \A h \in MigratedKeys :
                 /\ DictHas(doc, AvifName(h))
                 /\ DictGet(doc, AvifName(h)) = DictGet(metaBefore.obj, h)
                 /\ ~DictHas(doc, h)
           /\ \A k \in DictKeys(metaBefore.obj) \ MigratedKeys :
                 DictHas(doc, k) /\ DictGet(doc, k) = DictGet(metaBefore.obj, k)

\* C16, the case: a converted file had an entry and the document already had an
\* entry under the file's .AVIF name
C16_EntryUnderNewName ==
    /\ migPc = "done"
    /\ MigratedKeys # {}
    /\ \E h \in MigratedKeys : DictHas(metaBefore.obj, AvifName(h))

\* C17: every record of the written manifest has a hash field equal to the hash the
\* run computed for the file's bytes.
C17_StoredHash ==
    pc = "done" =>
        \A f \in DictKeys(Written) :
            /\ DictHas(DictGet(Written, f).d, "hash")
            /\ DictGet(DictGet(Written, f).d, "hash") = calculate_file_hash(src[f])

\* C17, the case: a record is written for a file whose override defines hash
C17_HashOverridden ==
    /\ pc = "done"
    /\ \E f \in DictKeys(Written) : DictHas(OverrideOf(f), "hash")

\* C18: a file whose transcode failed in the last completed run is enqueued when
\* the next run scans it, and process_image is called at most once per task of a run,
\* exactly once by the time its result is in.
C18_FailedRetriedNextRun ==
    /\ \A f \in failedPrev :
          Scanned(f) => (classified[f] = "REPROCESS" /\ f \in TaskNames)
    /\ \A i \in 1..Len(calls) :
          /\ calls[i] <= 1
          /\ results[i].st # "pending" => calls[i] = 1
    /\ pc \in {"save", "saving", "done"} => Len(calls) = Len(tasks)

\* C18, the case: a file that failed in the first run was scanned by the second run
\* with its bytes as they were and a derivative of its stem in place
C18_FailedScannedAgain ==
    /\ pc = "done"
    /\ runNo >= 2
    /\ \E f \in failedPrev : Scanned(f) /\ f \notin modified /\ Stem(f) \in derivs

\* C19: the manifest file changes only in the save stage of main, which starts after
\* every task of the pool has returned and is passed through once per run; a run that
\* aborts leaves the file as it was at the start of the run; no step of a run, of a
\* worker or of main, changes the override file.
C19_ManifestWrittenAtEnd ==
    [][/\ manifestFile' # manifestFile =>
             /\ pc \in {"save", "saving"}
             /\ pc' \in {"saving", "done"}
             /\ Len(results) = Len(tasks)
             /\ \A i \in 1..Len(results) : results[i].st = "done"
       /\ pc = "saving" => pc' \in {"saving", "done"}
       /\ pc = "done" => pc' \in {"done", "idle"}
       /\ pc' = "crashed" => manifestFile' = startFile'
       /\ overrideFile' # overrideFile => pc = "idle"]_vars

\* C19, the case: a run with two tasks in its pool has written a new manifest
C19_WrittenAfterPool ==
    /\ pc = "done"
    /\ Len(tasks) = 2
    /\ \A i \in 1..Len(results) : results[i].st = "done"
    /\ manifestFile # startFile

\* C20: the record written for a FRESH file has every field of the prior record,
\* and a field that the override document does not (or no longer) define has the
\* value it had in the prior record.
C20_FieldsNeverShrink ==
    pc = "done" =>
        \A f \in ScanNames :
            classified[f] = "FRESH" =>
                \A k \in DictKeys(PriorEntry(f).d) :
                    /\ DictHas(DictGet(Written, f).d, k)
                    /\ ~DictHas(OverrideOf(f), k)
                           => DictGet(DictGet(Written, f).d, k) = DictGet(PriorEntry(f).d, k)

\* C20, the case: the first run put the override's tags into the record, the user
\* then deleted the override, and the second run found the file FRESH
C20_OverrideDeleted ==
    /\ pc = "done"
    /\ runNo >= 2
    /\ \E f \in ScanNames :
          /\ classified[f] = "FRESH"
          /\ DictHas(PriorEntry(f).d, "tags")
          /\ DictGet(PriorEntry(f).d, "tags") = "x"
          /\ ~DictHas(OverrideOf(f), "tags")

====
